---- MODULE Spec2Model ----
(***************************************************************************)
(* PersonaPlex wrapper server (services/personaplex/server.py, prompts.py): *)
(* the session registry with TTL expiry, its REST endpoints, the           *)
(* background sweep and the duplex WebSocket relay.                        *)
(*                                                                         *)
(* Time is counted in minutes (the unit of SESSION_TTL_MINUTES).  The      *)
(* server runs on one asyncio event loop, so code between two awaits is    *)
(* one atomic step; every action below is one such stretch of code.        *)
(***************************************************************************)
EXTENDS Integers, Sequences, FiniteSets, TLC

(* ---------------------------- bounds ----------------------------------- *)
\* number of session ids the entropy source hands out in one behaviour
MaxSessions == 2
\* the clock stops advancing here
MaxTime == 4
\* frames the two endpoints of a relay send in one behaviour, together
MaxMsgs == 2
\* server.py:44, int(os.getenv("SESSION_TTL_MINUTES", "60")): a deployment
\* parameter; the model runs the configuration with a short TTL
SESSION_TTL_MINUTES == 2

(* ------------------------- program constants --------------------------- *)
CLOSE_SESSION_NOT_FOUND == 4001
CLOSE_BACKEND_ERROR == 4002
HTTP_OK == 200
HTTP_NOT_FOUND == 404

Ids == 1..MaxSessions

\* Optional[T]: None is the empty tuple, a present value x is <<x>>
None == <<>>
Some(x) == <<x>>
IsNone(o) == o = <<>>

(* ------------------------------ prompts.py ----------------------------- *)
DEFAULT_ASSISTANT_PROMPT == <<"DEFAULT_ASSISTANT_PROMPT">>

DigitStr == <<"0", "1", "2", "3", "4", "5", "6", "7", "8", "9">>

RECURSIVE NatStr(_)
NatStr(n) == IF n < 10 THEN DigitStr[n + 1]
             ELSE NatStr(n \div 10) \o DigitStr[(n % 10) + 1]

\* n < 1000 written with exactly three digits
Pad3(n) == DigitStr[(n \div 100) + 1] \o DigitStr[((n \div 10) % 10) + 1]
           \o DigitStr[(n % 10) + 1]

\* the "," option of the format spec: groups of three digits
RECURSIVE Grouped(_)
Grouped(n) == IF n < 1000 THEN NatStr(n)
              ELSE Grouped(n \div 1000) \o "," \o Pad3(n % 1000)

\* f"{total_charges:,.2f}" of an amount given in hundredths
FormatCharges(h) ==
    LET a == IF h < 0 THEN 0 - h ELSE h
    IN  (IF h < 0 THEN "-" ELSE "") \o Grouped(a \div 100) \o "."
        \o DigitStr[((a \div 10) % 10) + 1] \o DigitStr[(a % 10) + 1]

\* ", ".join(xs)
RECURSIVE Join(_)
Join(xs) == IF Len(xs) = 0 THEN ""
            ELSE IF Len(xs) = 1 THEN xs[1]
            ELSE xs[1] \o ", " \o Join(Tail(xs))

\* dict.get(key, default)
DictGet(d, key, default) == IF key \in DOMAIN d THEN d[key] ELSE default

\* a list-valued field: joined, or the placeholder when empty or missing
ListField(d, key) ==
    LET xs == DictGet(d, key, <<>>)
    IN  IF Len(xs) > 0 THEN Join(xs) ELSE "None provided"

\* totalCharges is [num |-> TRUE, hundredths |-> n] for an int/float and
\* [num |-> FALSE, text |-> s] for any other value, which is left as it is
ChargesField(d) ==
    LET v == DictGet(d, "totalCharges", [num |-> TRUE, hundredths |-> 0])
    IN  IF v.num THEN FormatCharges(v.hundredths) ELSE v.text

\* CLAIM_ASSISTANT_PROMPT.format(...): the template with its ten slots
format_claim_prompt(claim_context) ==
    << "CLAIM_ASSISTANT_PROMPT",
       DictGet(claim_context, "claimNumber", "Unknown"),
       DictGet(claim_context, "patientName", "Unknown"),
       DictGet(claim_context, "patientMrn", "Unknown"),
       DictGet(claim_context, "payerName", "Unknown"),
       DictGet(claim_context, "memberId", "Unknown"),
       DictGet(claim_context, "dateOfService", "Unknown"),
       "$" \o ChargesField(claim_context),
       DictGet(claim_context, "status", "Unknown"),
       ListField(claim_context, "diagnoses"),
       ListField(claim_context, "procedures") >>

(* --------------------------- request inputs ---------------------------- *)
EmptyDict == <<>>
ScenarioA == [totalCharges |-> [num |-> TRUE, hundredths |-> 123450],
              diagnoses |-> <<>>,
              procedures |-> <<"99213">>]
\* CreateSessionRequest.claim_context: Optional[dict]
Contexts == {None, Some(EmptyDict), Some(ScenarioA)}

VARIABLES
    now,        \* datetime.utcnow(), in minutes
    sessions,   \* SessionManager._sessions: session_id -> Session
    issued,     \* how many tokens secrets.token_urlsafe has produced
    resp,       \* the answer of the last REST call
    pc,         \* websocket_proxy: where the handler is
    wsReq,      \* websocket_proxy: its session_id and how line 332 resolved it
    ws,         \* the client connection (the WebSocket argument)
    closeCode,  \* code of the websocket.close() the handler called, 0 if none
    pp,         \* the backend connection pp_ws
    dialed,     \* websockets.connect has been called
    f2p,        \* the task forward_to_personaplex
    f2c,        \* the task forward_to_client
    clientSent, \* frames the client has sent, in order
    cRead,      \* how many of them websocket.receive() has returned
    toBackend,  \* frames pp_ws.send has delivered to the backend
    backendSent,\* frames the backend has sent, in order
    bRead,      \* how many of them iterating pp_ws has yielded
    toClient    \* frames websocket.send_* has delivered to the client

regVars == <<now, sessions, issued, resp>>
traffic == <<clientSent, cRead, toBackend, backendSent, bRead, toClient>>
relayVars == <<pc, wsReq, ws, closeCode, pp, dialed, f2p, f2c, traffic>>
vars == <<regVars, relayVars>>

(* ------------------------------- Session ------------------------------- *)
\* is_expired with the age counted from creation
is_expired_since_creation(s, t) ==
    LET expiry == s.created_at + SESSION_TTL_MINUTES
    IN  t > expiry

\* is_expired with the boundary included
is_expired_inclusive(s, t) ==
    LET expiry == s.last_accessed + SESSION_TTL_MINUTES
    IN  t >= expiry

\* Session.is_expired at clock reading t
is_expired(s, t) ==
    LET expiry == s.last_accessed + SESSION_TTL_MINUTES
    IN  t > expiry

\* a touch that restarts the whole record's clock
touch_resetting(s, t) == [s EXCEPT !.last_accessed = t, !.created_at = t]

\* Session.touch at clock reading t
touch(s, t) == [s EXCEPT !.last_accessed = t]

(* ---------------------------- SessionManager --------------------------- *)
\* an id generator that hands out an id no record holds at the moment, one
\* used before included
token_urlsafe_recycled == CHOOSE i \in Ids : i \notin DOMAIN sessions

\* secrets.token_urlsafe(32): 256 random bits, modelled as a value that was
\* never produced before
token_urlsafe == issued + 1

Remove(reg, sid) == [k \in (DOMAIN reg) \ {sid} |-> reg[k]]

\* delete_session with the membership test left out: del raises KeyError
SessionManager_delete_session_strict(reg, sid) ==
    IF sid \in DOMAIN reg
    THEN [sessions |-> Remove(reg, sid), raised |-> FALSE]
    ELSE [sessions |-> reg, raised |-> TRUE]

\* SessionManager.delete_session: the registry afterwards, and whether the
\* call raised
SessionManager_delete_session(reg, sid) ==
    IF sid \in DOMAIN reg
    THEN [sessions |-> Remove(reg, sid), raised |-> FALSE]
    ELSE [sessions |-> reg, raised |-> FALSE]

\* create_session that does not hand claim_context to Session(...)
SessionManager_create_session_nocontext(reg, sid, claim_context, t) ==
    LET text_prompt ==
            IF ~IsNone(claim_context) /\ DOMAIN claim_context[1] # {}
            THEN format_claim_prompt(claim_context[1])
            ELSE DEFAULT_ASSISTANT_PROMPT
        session == [session_id |-> sid,
                    claim_context |-> None,
                    text_prompt |-> text_prompt,
                    created_at |-> t,
                    last_accessed |-> t]
    IN  [k \in (DOMAIN reg) \cup {sid} |-> IF k = sid THEN session ELSE reg[k]]

\* SessionManager.create_session storing under the generated id sid
SessionManager_create_session(reg, sid, claim_context, t) ==
    LET text_prompt ==
            IF ~IsNone(claim_context) /\ DOMAIN claim_context[1] # {}
            THEN format_claim_prompt(claim_context[1])
            ELSE DEFAULT_ASSISTANT_PROMPT
        session == [session_id |-> sid,
                    claim_context |-> claim_context,
                    text_prompt |-> text_prompt,
                    created_at |-> t,
                    last_accessed |-> t]
    IN  [k \in (DOMAIN reg) \cup {sid} |-> IF k = sid THEN session ELSE reg[k]]

\* get_session that leaves expiry to the sweep
SessionManager_get_session_unchecked(reg, sid, t) ==
    IF sid \notin DOMAIN reg
    THEN [sessions |-> reg, session |-> None, branch |-> "unknown"]
    ELSE [sessions |-> [reg EXCEPT ![sid] = touch(reg[sid], t)],
          session |-> Some(touch(reg[sid], t)), branch |-> "found"]

\* SessionManager.get_session: the registry afterwards and the Optional
\* result; branch is the return statement taken
SessionManager_get_session(reg, sid, t) ==
    IF sid \notin DOMAIN reg
    THEN [sessions |-> reg, session |-> None, branch |-> "unknown"]
    ELSE IF is_expired(reg[sid], t)
    THEN [sessions |-> SessionManager_delete_session(reg, sid).sessions,
          session |-> None, branch |-> "expired"]
    ELSE [sessions |-> [reg EXCEPT ![sid] = touch(reg[sid], t)],
          session |-> Some(touch(reg[sid], t)), branch |-> "found"]

(* ------------------------------ REST API ------------------------------- *)
NoResp == [op |-> "none", session_id |-> 0, status |-> 0,
           text_prompt |-> <<>>, has_claim_context |-> FALSE,
           active_sessions |-> 0, branch |-> "none"]

Init ==
    /\ now = 0
    /\ sessions = <<>>
    /\ issued = 0
    /\ resp = NoResp
    /\ pc = "idle"
    /\ wsReq = [session_id |-> 0, branch |-> "none"]
    /\ ws = "connecting"
    /\ closeCode = 0
    /\ pp = "none"
    /\ dialed = FALSE
    /\ f2p = "none"
    /\ f2c = "none"
    /\ clientSent = <<>>
    /\ cRead = 0
    /\ toBackend = <<>>
    /\ backendSent = <<>>
    /\ bRead = 0
    /\ toClient = <<>>

\* a sweep that measures a record's age from its creation
SessionManager_cleanup_expired_by_creation(reg, t) ==
    LET expired == {sid \in DOMAIN reg :
                        t > reg[sid].created_at + SESSION_TTL_MINUTES}
    IN  [k \in (DOMAIN reg) \ expired |-> reg[k]]

\* the body of the loop of SessionManager.cleanup_expired: the registry
\* after one pass at time t (no await between the scan and the deletions)
SessionManager_cleanup_expired(reg, t) ==
    LET expired == {sid \in DOMAIN reg : is_expired(reg[sid], t)}
    IN  [k \in (DOMAIN reg) \ expired |-> reg[k]]

\* POST /sessions
create_session(claim_context) ==
    /\ issued < MaxSessions
    /\ LET session_id == token_urlsafe
           reg1 == SessionManager_create_session(sessions, session_id,
                                                 claim_context, now)
           got == SessionManager_get_session(reg1, session_id, now)
       IN  /\ sessions' = got.sessions
           /\ resp' = [op |-> "create", session_id |-> session_id,
                       status |-> HTTP_OK,
                       text_prompt |-> IF ~IsNone(got.session)
                                       THEN got.session[1].text_prompt
                                       ELSE DEFAULT_ASSISTANT_PROMPT,
                       has_claim_context |-> FALSE,
                       active_sessions |-> 0,
                       branch |-> got.branch]
    /\ issued' = issued + 1
    /\ UNCHANGED <<now, relayVars>>

\* GET /sessions/{session_id}: the registry afterwards and the answer
get_session_call(reg, session_id, t) ==
    LET got == SessionManager_get_session(reg, session_id, t)
    IN  [sessions |-> got.sessions,
         resp |-> IF IsNone(got.session)
                  THEN [NoResp EXCEPT !.op = "get",
                                      !.session_id = session_id,
                                      !.status = HTTP_NOT_FOUND,
                                      !.branch = got.branch]
                  ELSE [op |-> "get",
                        session_id |-> got.session[1].session_id,
                        status |-> HTTP_OK,
                        text_prompt |-> got.session[1].text_prompt,
                        has_claim_context |->
                            ~IsNone(got.session[1].claim_context),
                        active_sessions |-> 0,
                        branch |-> got.branch]]

get_session(session_id) ==
    /\ LET r == get_session_call(sessions, session_id, now)
       IN  /\ sessions' = r.sessions
           /\ resp' = r.resp
    /\ UNCHANGED <<now, issued, relayVars>>

\* the deletion endpoint that answers success whether or not the id exists
delete_session_call_silent(reg, session_id, t) ==
    [sessions |-> SessionManager_delete_session(reg, session_id).sessions,
     resp |-> [NoResp EXCEPT !.op = "delete",
                             !.session_id = session_id,
                             !.status = HTTP_OK,
                             !.branch = "found"]]

\* DELETE /sessions/{session_id}: the registry afterwards and the answer
delete_session_call(reg, session_id, t) ==
    LET got == SessionManager_get_session(reg, session_id, t)
    IN  IF IsNone(got.session)
        THEN [sessions |-> got.sessions,
              resp |-> [NoResp EXCEPT !.op = "delete",
                                      !.session_id = session_id,
                                      !.status = HTTP_NOT_FOUND,
                                      !.branch = got.branch]]
        ELSE [sessions |-> SessionManager_delete_session(
                               got.sessions, session_id).sessions,
              resp |-> [NoResp EXCEPT !.op = "delete",
                                      !.session_id = session_id,
                                      !.status = HTTP_OK,
                                      !.branch = got.branch]]

delete_session(session_id) ==
    /\ LET r == delete_session_call(sessions, session_id, now)
       IN  /\ sessions' = r.sessions
           /\ resp' = r.resp
    /\ UNCHANGED <<now, issued, relayVars>>

\* a health check that reaps the expired records before it counts
health_check_reaping ==
    /\ sessions' = SessionManager_cleanup_expired(sessions, now)
    /\ resp' = [NoResp EXCEPT !.op = "health", !.status = HTTP_OK,
                              !.active_sessions =
                                  Cardinality(DOMAIN sessions')]
    /\ UNCHANGED <<now, issued, relayVars>>

\* GET /health
health_check ==
    /\ resp' = [NoResp EXCEPT !.op = "health", !.status = HTTP_OK,
                              !.active_sessions =
                                  Cardinality(DOMAIN sessions)]
    /\ UNCHANGED <<now, sessions, issued, relayVars>>

\* one pass of SessionManager.cleanup_expired after its sleep; the sleep is
\* a delay of unconstrained length
cleanup_expired ==
    /\ sessions' = SessionManager_cleanup_expired(sessions, now)
    /\ UNCHANGED <<now, issued, resp, relayVars>>

(* --------------------------- WebSocket frames -------------------------- *)
\* what an endpoint puts on the wire: a binary or a text frame
Frames == {[kind |-> "bytes", data |-> "a"],
           [kind |-> "text", data |-> "a"],
           [kind |-> "text", data |-> ""]}

\* a Python value of type bytes or str
PyBytes(d) == [type |-> "bytes", v |-> d]
PyStr(d) == [type |-> "str", v |-> d]

\* the ASGI event websocket.receive() returns for a frame (uvicorn, the
\* server of line 391, sets the one key that matches the frame)
AsgiReceive(frame) ==
    IF frame.kind = "bytes" THEN [bytes |-> PyBytes(frame.data)]
    ELSE [text |-> PyStr(frame.data)]

\* the frame a send writes for a Python value: binary for bytes, text for str
\* (pp_ws.send picks the opcode by type)
WireFrame(value) ==
    [kind |-> IF value.type = "bytes" THEN "bytes" ELSE "text",
     data |-> value.v]

\* the value iterating pp_ws yields for a frame
PpRecv(frame) ==
    IF frame.kind = "bytes" THEN PyBytes(frame.data) ELSE PyStr(frame.data)

\* websocket.send_bytes / websocket.send_text: the frame written
send_bytes(value) == [kind |-> "bytes", data |-> value.v]
send_text(value) == [kind |-> "text", data |-> value.v]

\* the loop body testing the values (data.get("bytes")) instead of the keys
ForwardToPersonaplexBody_truthy(data) ==
    IF "bytes" \in DOMAIN data /\ data["bytes"].v # ""
    THEN <<WireFrame(data["bytes"])>>
    ELSE IF "text" \in DOMAIN data /\ data["text"].v # ""
    THEN <<WireFrame(data["text"])>>
    ELSE <<>>

\* body of the loop in forward_to_personaplex for one received event: the
\* frames it writes to pp_ws
ForwardToPersonaplexBody(data) ==
    IF "bytes" \in DOMAIN data THEN <<WireFrame(data["bytes"])>>
    ELSE IF "text" \in DOMAIN data THEN <<WireFrame(data["text"])>>
    ELSE <<>>

\* body of the loop in forward_to_client for one message
ForwardToClientBody(message) ==
    IF message.type = "bytes" THEN <<send_bytes(message)>>
    ELSE <<send_text(message)>>

(* --------------------------- websocket_proxy --------------------------- *)
\* websocket_proxy that accepts and dials before it looks at the session
ws_connect_dial_first(session_id) ==
    /\ pc = "idle"
    /\ LET got == SessionManager_get_session(sessions, session_id, now)
       IN  /\ sessions' = got.sessions
           /\ wsReq' = [session_id |-> session_id, branch |-> got.branch]
           /\ dialed' = TRUE
           /\ IF IsNone(got.session)
              THEN /\ closeCode' = CLOSE_SESSION_NOT_FOUND
                   /\ ws' = "closed_by_server"
                   /\ pc' = "refused"
              ELSE /\ closeCode' = closeCode
                   /\ ws' = "open"
                   /\ pc' = "dialing"
    /\ UNCHANGED <<now, issued, resp, pp, f2p, f2c, traffic>>

\* lines 332-344: resolve the session, refuse or accept, start the dial
ws_connect(session_id) ==
    /\ pc = "idle"
    /\ LET got == SessionManager_get_session(sessions, session_id, now)
       IN  /\ sessions' = got.sessions
           /\ wsReq' = [session_id |-> session_id, branch |-> got.branch]
           /\ IF IsNone(got.session)
              THEN /\ closeCode' = CLOSE_SESSION_NOT_FOUND
                   /\ ws' = "closed_by_server"
                   /\ pc' = "refused"
                   /\ dialed' = dialed
              ELSE /\ closeCode' = closeCode
                   /\ ws' = "open"
                   /\ pc' = "dialing"
                   /\ dialed' = TRUE
    /\ UNCHANGED <<now, issued, resp, pp, f2p, f2c, traffic>>

\* websockets.connect succeeds: both forwarding tasks start under gather
dial_ok ==
    /\ pc = "dialing"
    /\ pc' = "relaying"
    /\ pp' = "open"
    /\ f2p' = "run"
    /\ f2c' = "run"
    /\ UNCHANGED <<regVars, wsReq, ws, closeCode, dialed, traffic>>

\* a dial failure that also drops the session the relay was opened for
dial_fail_forgetting ==
    /\ pc = "dialing"
    /\ pc' = "done"
    /\ pp' = "failed"
    /\ closeCode' = CLOSE_BACKEND_ERROR
    /\ ws' = IF ws = "open" THEN "closed_by_server" ELSE ws
    /\ sessions' = SessionManager_delete_session(
                       sessions, wsReq.session_id).sessions
    /\ UNCHANGED <<now, issued, resp, wsReq, dialed, f2p, f2c, traffic>>

\* websockets.connect raises: lines 382-384
dial_fail ==
    /\ pc = "dialing"
    /\ pc' = "done"
    /\ pp' = "failed"
    /\ closeCode' = CLOSE_BACKEND_ERROR
    /\ ws' = IF ws = "open" THEN "closed_by_server" ELSE ws
    /\ UNCHANGED <<regVars, wsReq, dialed, f2p, f2c, traffic>>

\* forward_to_personaplex, one turn of its loop (lines 355-360) on a frame:
\* websocket.receive() returns it and the body sends it on
forward_to_personaplex_frame ==
    /\ pc = "relaying"
    /\ f2p = "run"
    /\ cRead < Len(clientSent)
    /\ cRead' = cRead + 1
    /\ LET data == AsgiReceive(clientSent[cRead + 1])
           out == ForwardToPersonaplexBody(data)
       IN  IF pp = "open" \/ out = <<>>
           THEN /\ toBackend' = toBackend \o out
                /\ f2p' = f2p
           ELSE \* pp_ws.send raises ConnectionClosed, which line 361 lets by
                /\ toBackend' = toBackend
                /\ f2p' = "done"
    /\ UNCHANGED <<regVars, pc, wsReq, ws, closeCode, pp, dialed, f2c,
                   clientSent, backendSent, bRead, toClient>>

\* forward_to_personaplex, one turn on the disconnect event: receive()
\* returns it, it has neither key and the loop goes round
forward_to_personaplex_disconnect ==
    /\ pc = "relaying"
    /\ f2p = "run"
    /\ cRead = Len(clientSent)
    /\ ws = "closed_by_client"
    /\ f2p' = "disconnected"
    /\ UNCHANGED <<regVars, pc, wsReq, ws, closeCode, pp, dialed, f2c,
                   traffic>>

\* forward_to_personaplex, the turn after the disconnect event: receive()
\* raises and the task ends
forward_to_personaplex_raise ==
    /\ pc = "relaying"
    /\ f2p = "disconnected"
    /\ f2p' = "done"
    /\ UNCHANGED <<regVars, pc, wsReq, ws, closeCode, pp, dialed, f2c,
                   traffic>>

\* a backend-to-client turn that forwards only while the session is stored
forward_to_client_frame_checked ==
    /\ pc = "relaying"
    /\ f2c = "run"
    /\ bRead < Len(backendSent)
    /\ wsReq.session_id \in DOMAIN sessions
    /\ bRead' = bRead + 1
    /\ LET message == PpRecv(backendSent[bRead + 1])
           out == ForwardToClientBody(message)
       IN  IF ws = "open"
           THEN /\ toClient' = toClient \o out
                /\ f2c' = f2c
           ELSE /\ toClient' = toClient
                /\ f2c' = "done"
    /\ UNCHANGED <<regVars, pc, wsReq, ws, closeCode, pp, dialed, f2p,
                   clientSent, cRead, toBackend, backendSent>>

\* forward_to_client, one turn of its loop (lines 367-371) on a message
forward_to_client_frame ==
    /\ pc = "relaying"
    /\ f2c = "run"
    /\ bRead < Len(backendSent)
    /\ bRead' = bRead + 1
    /\ LET message == PpRecv(backendSent[bRead + 1])
           out == ForwardToClientBody(message)
       IN  IF ws = "open"
           THEN /\ toClient' = toClient \o out
                /\ f2c' = f2c
           ELSE \* the send on the closed client connection raises
                /\ toClient' = toClient
                /\ f2c' = "done"
    /\ UNCHANGED <<regVars, pc, wsReq, ws, closeCode, pp, dialed, f2p,
                   clientSent, cRead, toBackend, backendSent>>

\* forward_to_client when the backend connection has closed: the iteration
\* ends, or raises ConnectionClosed (lines 372-373)
forward_to_client_closed ==
    /\ pc = "relaying"
    /\ f2c = "run"
    /\ bRead = Len(backendSent)
    /\ pp \in {"closed_by_backend", "dropped"}
    /\ f2c' = "done"
    /\ UNCHANGED <<regVars, pc, wsReq, ws, closeCode, pp, dialed, f2p,
                   traffic>>

\* asyncio.gather returns once both tasks have finished; leaving the
\* "async with" closes pp_ws; no exception reaches line 382
gather_done ==
    /\ pc = "relaying"
    /\ f2p = "done"
    /\ f2c = "done"
    /\ pc' = "done"
    /\ pp' = IF pp = "open" THEN "closed_by_relay" ELSE pp
    /\ UNCHANGED <<regVars, wsReq, ws, closeCode, dialed, f2p, f2c,
                   traffic>>

(* ----------------------------- environment ----------------------------- *)
ClientSend(frame) ==
    /\ ws = "open"
    /\ Len(clientSent) + Len(backendSent) < MaxMsgs
    /\ clientSent' = Append(clientSent, frame)
    /\ UNCHANGED <<regVars, pc, wsReq, ws, closeCode, pp, dialed, f2p, f2c,
                   cRead, toBackend, backendSent, bRead, toClient>>

ClientClose ==
    /\ ws = "open"
    /\ ws' = "closed_by_client"
    /\ UNCHANGED <<regVars, pc, wsReq, closeCode, pp, dialed, f2p, f2c,
                   traffic>>

BackendSend(frame) ==
    /\ pp = "open"
    /\ Len(clientSent) + Len(backendSent) < MaxMsgs
    /\ backendSent' = Append(backendSent, frame)
    /\ UNCHANGED <<regVars, pc, wsReq, ws, closeCode, pp, dialed, f2p, f2c,
                   clientSent, cRead, toBackend, bRead, toClient>>

\* the backend closes its connection in order, or the connection drops
BackendClose(how) ==
    /\ pp = "open"
    /\ pp' = how
    /\ UNCHANGED <<regVars, pc, wsReq, ws, closeCode, dialed, f2p, f2c,
                   traffic>>

\* the clock advances by a minute
Tick ==
    /\ now < MaxTime
    /\ now' = now + 1
    /\ UNCHANGED <<sessions, issued, resp, relayVars>>

Next ==
    \/ \E c \in Contexts : create_session(c)
    \/ \E i \in Ids : get_session(i)
    \/ \E i \in Ids : delete_session(i)
    \/ health_check
    \/ cleanup_expired
    \/ Tick

Spec == Init /\ [][Next]_vars

\* the steps websocket_proxy takes whatever the endpoints send
Proxy ==
    \/ dial_ok
    \/ dial_fail
    \/ forward_to_personaplex_disconnect
    \/ forward_to_personaplex_raise
    \/ forward_to_client_closed
    \/ gather_done

\* streaming attempts against the clock: the registry is filled and aged,
\* the endpoints open and close their connections and send nothing
NextStream ==
    \/ \E c \in Contexts : create_session(c)
    \/ Tick
    \/ \E i \in Ids : ws_connect(i)
    \/ Proxy
    \/ ClientClose
    \/ \E how \in {"closed_by_backend", "dropped"} : BackendClose(how)

StreamSpec == Init /\ [][NextStream]_vars

\* a relay with its traffic, the clock standing still
NextRelay ==
    \/ \E c \in Contexts : create_session(c)
    \/ \E i \in Ids : ws_connect(i)
    \/ Proxy
    \/ forward_to_personaplex_frame
    \/ forward_to_client_frame
    \/ \E m \in Frames : ClientSend(m)
    \/ ClientClose
    \/ \E m \in Frames : BackendSend(m)
    \/ \E how \in {"closed_by_backend", "dropped"} : BackendClose(how)

RelaySpec == Init /\ [][NextRelay]_vars

\* the event loop runs every task that is ready; what the client and the
\* backend do is up to them
ProxyFair ==
    /\ WF_vars(dial_ok \/ dial_fail)
    /\ WF_vars(forward_to_personaplex_frame)
    /\ WF_vars(forward_to_personaplex_disconnect)
    /\ WF_vars(forward_to_personaplex_raise)
    /\ WF_vars(forward_to_client_frame)
    /\ WF_vars(forward_to_client_closed)
    /\ WF_vars(gather_done)

FairRelaySpec == RelaySpec /\ ProxyFair

\* one session at a time with its relay, its traffic, the clock, the sweep
\* and the REST calls that name it: what the registry does to a session
\* while its relay runs
OneFrame == {[kind |-> "bytes", data |-> "a"]}

NextLive ==
    \/ (DOMAIN sessions = {} /\ create_session(None))
    \/ \E i \in DOMAIN sessions : get_session(i)
    \/ \E i \in DOMAIN sessions : delete_session(i)
    \/ cleanup_expired
    \/ Tick
    \/ \E i \in DOMAIN sessions : ws_connect(i)
    \/ Proxy
    \/ forward_to_personaplex_frame
    \/ forward_to_client_frame
    \/ \E m \in OneFrame : ClientSend(m)
    \/ ClientClose
    \/ \E m \in OneFrame : BackendSend(m)
    \/ \E how \in {"closed_by_backend", "dropped"} : BackendClose(how)

LiveSpec == Init /\ [][NextLive]_vars

(* ============================== the claims ============================= *)
Idle(sid) == now - sessions[sid].last_accessed

\* C1: in every reachable state, a stored session whose idle time
\* now - last_accessed exceeds the TTL is not returned by get, whether or
\* not the sweep has removed it.
C1_ExpiredIsAbsent ==
    \A sid \in DOMAIN sessions :
        Idle(sid) > SESSION_TTL_MINUTES =>
            /\ IsNone(SessionManager_get_session(sessions, sid, now).session)
            /\ get_session_call(sessions, sid, now).resp.status
                   = HTTP_NOT_FOUND

\* a lookup has just answered "not found" for a record that was expired and
\* still stored
C1_Witness ==
    /\ resp.op = "get"
    /\ resp.branch = "expired"
    /\ resp.status = HTTP_NOT_FOUND

\* C2: a get of a session idle for less than the TTL succeeds, however old
\* the session is, and leaves its last_accessed at the time of the call; a
\* get of a session idle for more than the TTL answers "not found".
C2_GetExtendsLife ==
    [][\A sid \in Ids :
          (get_session(sid) /\ sid \in DOMAIN sessions) =>
              /\ Idle(sid) < SESSION_TTL_MINUTES =>
                     /\ resp'.status = HTTP_OK
                     /\ sid \in DOMAIN sessions'
                     /\ sessions'[sid].last_accessed = now
              /\ resp'.status = HTTP_OK =>
                     /\ sid \in DOMAIN sessions'
                     /\ sessions'[sid].last_accessed = now
              /\ Idle(sid) > SESSION_TTL_MINUTES =>
                     resp'.status = HTTP_NOT_FOUND]_vars

\* Scenario D: a lookup has just succeeded more than a TTL after creation
C2_Witness ==
    /\ resp.op = "get"
    /\ resp.status = HTTP_OK
    /\ resp.session_id \in DOMAIN sessions
    /\ now > sessions[resp.session_id].created_at + SESSION_TTL_MINUTES
    /\ sessions[resp.session_id].last_accessed = now

\* C3: the id create returns is the id of no record stored before; a get
\* right after create returns a record with that id, the supplied context
\* and the prompt create derived and answered.
C3_CreateThenGet ==
    [][\A c \in Contexts :
          create_session(c) =>
              LET sid == resp'.session_id
                  got == SessionManager_get_session(sessions', sid, now')
              IN  /\ sid \notin DOMAIN sessions
                  /\ ~IsNone(got.session)
                  /\ got.session[1].session_id = sid
                  /\ got.session[1].claim_context = c
                  /\ got.session[1].text_prompt = resp'.text_prompt]_vars

\* a session with a claim context has just been created beside another one
C3_Witness ==
    /\ resp.op = "create"
    /\ resp.session_id \in DOMAIN sessions
    /\ sessions[resp.session_id].claim_context = Some(ScenarioA)
    /\ Cardinality(DOMAIN sessions) = 2

\* C9: in every reachable registry and for every id, delete_session raises
\* nothing, leaves a registry without the id unchanged, removes the id and
\* nothing else, and a second delete changes nothing more.
C9_DeleteIdempotent ==
    \A sid \in Ids :
        LET once == SessionManager_delete_session(sessions, sid)
            twice == SessionManager_delete_session(once.sessions, sid)
        IN  /\ ~once.raised
            /\ ~twice.raised
            /\ sid \notin DOMAIN sessions => once.sessions = sessions
            /\ twice.sessions = once.sessions
            /\ DOMAIN once.sessions = (DOMAIN sessions) \ {sid}
            /\ \A k \in DOMAIN once.sessions : once.sessions[k] = sessions[k]

\* a session has just been deleted from a registry that keeps another one
C9_Witness ==
    /\ resp.op = "delete"
    /\ resp.status = HTTP_OK
    /\ resp.session_id \notin DOMAIN sessions
    /\ DOMAIN sessions # {}

\* C10: in every reachable state and for every id, the deletion endpoint
\* answers "not found" exactly when the lookup endpoint would, and after a
\* successful deletion the lookup endpoint answers "not found".
C10_DeleteMirrorsLookup ==
    \A sid \in Ids :
        LET look == get_session_call(sessions, sid, now)
            del == delete_session_call(sessions, sid, now)
        IN  /\ (del.resp.status = HTTP_NOT_FOUND)
                   <=> (look.resp.status = HTTP_NOT_FOUND)
            /\ del.resp.status \in {HTTP_OK, HTTP_NOT_FOUND}
            /\ del.resp.status = HTTP_OK =>
                   get_session_call(del.sessions, sid, now).resp.status
                       = HTTP_NOT_FOUND

\* the deletion endpoint has just answered "not found" for an expired
\* session, while an unknown id is around as well
C10_Witness ==
    /\ resp.op = "delete"
    /\ resp.status = HTTP_NOT_FOUND
    /\ resp.branch = "expired"
    /\ \E sid \in Ids : sid > issued

IsPrefix(p, q) == Len(p) <= Len(q) /\ p = SubSeq(q, 1, Len(p))

BackendFailed == pp \in {"failed", "dropped"}

\* C4: a streaming attempt whose session id is unknown or expired when it
\* connects is refused with close code 4001 without a backend connection
\* attempt, and no attempt is made for it afterwards.
C4_RefusedBeforeDial ==
    [][/\ \A sid \in Ids :
              (/\ ws_connect(sid)
               /\ \/ sid \notin DOMAIN sessions
                  \/ Idle(sid) > SESSION_TTL_MINUTES) =>
                  /\ pc' = "refused"
                  /\ closeCode' = CLOSE_SESSION_NOT_FOUND
                  /\ ws' = "closed_by_server"
                  /\ ~dialed'
                  /\ pp' = "none"
       /\ pc = "refused" =>
              /\ pc' = "refused"
              /\ closeCode' = CLOSE_SESSION_NOT_FOUND
              /\ ~dialed'
              /\ pp' = "none"]_vars

\* a streaming attempt on an expired, still stored session has been refused
C4_Witness ==
    /\ pc = "refused"
    /\ wsReq.branch = "expired"
    /\ closeCode = CLOSE_SESSION_NOT_FOUND
    /\ ~dialed

\* C5 as claimed: once the client connection of a running relay has closed,
\* the backend connection is eventually closed and the relay has ended.
C5_ClientCloseEndsRelay ==
    (pc = "relaying" /\ ws = "closed_by_client")
        ~> (pc = "done" /\ pp # "open")

\* C6 as claimed: once the backend connection of a running relay has
\* closed, the relay eventually ends (the handler returns, which is the
\* earliest point at which the client connection is given up).
C6_BackendCloseEndsRelay ==
    (pc = "relaying" /\ pp \in {"closed_by_backend", "dropped"})
        ~> (pc = "done")

\* C7 as claimed: a handler that has finished after its backend connection
\* failed, at the dial or by dropping during the relay, and whose client has
\* not left by itself, has closed the client connection with code 4002,
\* which differs from 4001 and from no code at all.
C7_BackendFailureCode ==
    /\ CLOSE_BACKEND_ERROR # CLOSE_SESSION_NOT_FOUND
    /\ CLOSE_BACKEND_ERROR # 0
    /\ (pc = "done" /\ BackendFailed /\ ws # "closed_by_client") =>
           closeCode = CLOSE_BACKEND_ERROR

\* C8: in each direction the frames delivered are a prefix of the frames
\* sent, kind and content included, and while a forwarding task runs every
\* frame it has received has been delivered.
C8_FifoFidelity ==
    /\ IsPrefix(toBackend, clientSent)
    /\ IsPrefix(toClient, backendSent)
    /\ f2p \in {"run", "disconnected"} => Len(toBackend) = cRead
    /\ f2c = "run" => Len(toClient) = bRead
    /\ Len(toBackend) \in {cRead, cRead - 1}
    /\ Len(toClient) \in {bRead, bRead - 1}

\* two frames, an empty text frame and a binary one, have reached the
\* backend
C8_Witness ==
    /\ Len(toBackend) = 2
    /\ toBackend[1].kind # toBackend[2].kind
    /\ \E i \in 1..2 : toBackend[i].data = ""

(* ------------------------- prompt and context -------------------------- *)
\* C11: every stored session has the default prompt exactly when it was
\* created with no context, a session created with any context, the empty
\* one included, has the prompt derived from that context, and a lookup
\* reports has_claim_context false exactly when the prompt it reports is
\* the default prompt.
C11_PromptFollowsContext ==
    /\ \A sid \in DOMAIN sessions :
          LET s == sessions[sid] IN
          /\ (s.text_prompt = DEFAULT_ASSISTANT_PROMPT) <=> IsNone(s.claim_context)
          /\ ~IsNone(s.claim_context) =>
                 s.text_prompt = format_claim_prompt(s.claim_context[1])
    /\ (resp.op = "get" /\ resp.status = HTTP_OK) =>
           ((resp.has_claim_context = FALSE)
                <=> (resp.text_prompt = DEFAULT_ASSISTANT_PROMPT))

(* ------------------------ relay and the registry ----------------------- *)
\* C12: a relay that forwards a frame keeps its session alive: right after
\* every frame the relay forwards, in either direction, its session, if
\* still stored, is not expired, so neither the sweep nor a get removes it
\* however long the relay has been running.
C12_RelayKeepsSessionFresh ==
    [][((forward_to_personaplex_frame \/ forward_to_client_frame)
            /\ wsReq.session_id \in DOMAIN sessions)
        => /\ wsReq.session_id \in DOMAIN sessions'
           /\ ~is_expired(sessions'[wsReq.session_id], now')]_vars

(* ------------------------------ the sweep ------------------------------ *)
\* C13: a sweep pass removes every record with last_accessed + TTL < now
\* and no other: after the pass no such record is stored, and every record
\* that was not expired at the pass is still stored with all its fields as
\* they were, last_accessed included; the pass adds no record.
C13_SweepRemovesExactlyExpired ==
    [][cleanup_expired =>
          /\ DOMAIN sessions' \subseteq DOMAIN sessions
          /\ \A sid \in DOMAIN sessions :
                IF sessions[sid].last_accessed + SESSION_TTL_MINUTES < now
                THEN sid \notin DOMAIN sessions'
                ELSE /\ sid \in DOMAIN sessions'
                     /\ sessions'[sid] = sessions[sid]
          /\ \A sid \in DOMAIN sessions' :
                ~(sessions'[sid].last_accessed + SESSION_TTL_MINUTES < now')
      ]_vars

\* the health answer counted two records, nothing but the sweep and the
\* clock has run since, and one record, unexpired and untouched, is left
C13_Witness ==
    /\ resp.op = "health"
    /\ resp.active_sessions = 2
    /\ Cardinality(DOMAIN sessions) = 1
    /\ \A sid \in DOMAIN sessions :
          /\ ~is_expired(sessions[sid], now)
          /\ sessions[sid].last_accessed < now

(* ---------------------- interleaved registry calls --------------------- *)
\* the prompts a record can carry
KnownPrompts ==
    {DEFAULT_ASSISTANT_PROMPT} \cup
    {format_claim_prompt(c[1]) : c \in Contexts \ {None}}

\* a complete record stored under its own id at clock reading t
WellFormed(s, sid, t) ==
    /\ DOMAIN s = {"session_id", "claim_context", "text_prompt",
                   "created_at", "last_accessed"}
    /\ s.session_id = sid
    /\ s.claim_context \in Contexts
    /\ s.text_prompt \in KnownPrompts
    /\ s.created_at <= s.last_accessed
    /\ s.last_accessed <= t

\* C14: in every interleaving of create, get, delete and the sweep, each
\* step takes effect as a whole: a record disappears only if it was expired
\* at that moment or the deletion endpoint deleted it (so the sweep never
\* removes a record a get has refreshed), an id that was issued and is no
\* longer stored never comes back, the only record a step adds is the
\* complete record of a newly issued id and the others stay, every stored
\* record is complete, and a successful get answers with the fields of the
\* complete record it has just refreshed.
C14_RegistryOpsAtomic ==
    [][/\ \A sid \in (DOMAIN sessions) \ (DOMAIN sessions') :
             \/ is_expired(sessions[sid], now)
             \/ /\ resp'.op = "delete"
                /\ resp'.session_id = sid
                /\ resp'.status = HTTP_OK
       /\ \A sid \in 1..issued :
             sid \notin DOMAIN sessions => sid \notin DOMAIN sessions'
       /\ \A sid \in (DOMAIN sessions') \ (DOMAIN sessions) :
             /\ issued' = issued + 1
             /\ sid = issued'
             /\ resp'.op = "create"
             /\ resp'.session_id = sid
       /\ \A sid \in DOMAIN sessions' : WellFormed(sessions'[sid], sid, now')
       /\ (resp' # resp /\ resp'.op = "get" /\ resp'.status = HTTP_OK) =>
             /\ resp'.session_id \in DOMAIN sessions'
             /\ LET s == sessions'[resp'.session_id] IN
                /\ s.last_accessed = now'
                /\ resp'.text_prompt = s.text_prompt
                /\ resp'.has_claim_context = ~IsNone(s.claim_context)
      ]_vars

\* the first id is gone for good while the second record, created later
\* and refreshed by a get, is stored past the time it would have expired
\* without the refresh
C14_Witness ==
    /\ issued = 2
    /\ 1 \notin DOMAIN sessions
    /\ 2 \in DOMAIN sessions
    /\ resp.op = "get"
    /\ resp.status = HTTP_OK
    /\ resp.session_id = 2
    /\ now > sessions[2].created_at + SESSION_TTL_MINUTES
    /\ ~is_expired(sessions[2], now)

(* ------------------------------- teardown ------------------------------ *)
\* C15: when the relay handler has returned, whatever ended it, the client
\* connection is closed and the backend connection, if one was opened, is
\* closed too.
C15_BothClosedAtExit ==
    pc = "done" =>
        /\ ws \in {"closed_by_client", "closed_by_server"}
        /\ pp # "open"

(* ----------------------------- immutability ---------------------------- *)
\* C16: no step changes the session_id, claim_context, text_prompt or
\* created_at of a record that stays stored; last_accessed is the only
\* field that changes, it changes only to the current time, and only in a
\* step that is a successful get of that very id (by the lookup endpoint
\* or by a relay resolving its session), so a get changes no other record.
C16_OnlyLastAccessedChanges ==
    [][\A sid \in (DOMAIN sessions) \cap (DOMAIN sessions') :
          LET s == sessions[sid]
              n == sessions'[sid]
          IN  /\ n.session_id = s.session_id
              /\ n.claim_context = s.claim_context
              /\ n.text_prompt = s.text_prompt
              /\ n.created_at = s.created_at
              /\ n.last_accessed # s.last_accessed =>
                    /\ n.last_accessed = now'
                    /\ \/ /\ resp'.op = "get"
                          /\ resp'.status = HTTP_OK
                          /\ resp'.session_id = sid
                       \/ /\ pc = "idle"
                          /\ pc' = "dialing"
                          /\ wsReq'.session_id = sid
      ]_vars

\* a get has refreshed the first record after time has passed; the second
\* record still carries the access time of its creation
C16_Witness ==
    /\ DOMAIN sessions = {1, 2}
    /\ resp.op = "get"
    /\ resp.status = HTTP_OK
    /\ resp.session_id = 1
    /\ sessions[1].last_accessed = now
    /\ sessions[1].created_at < now
    /\ sessions[2].last_accessed = sessions[2].created_at
    /\ sessions[2].last_accessed < now

(* ------------------- backend failure and the registry ------------------ *)
\* C17: once the relay has resolved its session, no step of the relay or
\* of its two connections adds, removes or changes a record, and when the
\* backend has failed, at the dial or in the middle of the stream, the
\* relay's own session is still returned by get, up to and after the abort.
C17_BackendFailureKeepsRegistry ==
    [][/\ (pc # "idle" /\ relayVars' # relayVars) =>
              /\ sessions' = sessions
              /\ issued' = issued
       /\ (pp' \in {"failed", "dropped"}) =>
              ~IsNone(SessionManager_get_session(
                          sessions', wsReq'.session_id, now').session)
      ]_vars

\* the dial failed, the relay has aborted with the backend error code, and
\* the session it was opened for is still stored
C17_Witness ==
    /\ pc = "done"
    /\ pp = "failed"
    /\ closeCode = CLOSE_BACKEND_ERROR
    /\ wsReq.session_id \in DOMAIN sessions

(* ------------------------------- health -------------------------------- *)
\* C18: a health check answers with the number of records stored at that
\* moment, expired ones included, and leaves the registry as it was: no
\* record is added, removed or refreshed, and no id is issued.
C18_HealthIsReadOnly ==
    [][health_check =>
          /\ resp'.op = "health"
          /\ resp'.active_sessions = Cardinality(DOMAIN sessions)
          /\ sessions' = sessions
          /\ issued' = issued
          /\ now' = now
      ]_vars

\* the health answer counts both stored records while one of them is
\* expired and still stored
C18_Witness ==
    /\ resp.op = "health"
    /\ resp.active_sessions = 2
    /\ Cardinality(DOMAIN sessions) = 2
    /\ \E sid \in DOMAIN sessions : is_expired(sessions[sid], now)

(* -------------------------- one expiry predicate ------------------------ *)
\* C19: for every stored record and every clock reading from its last
\* access on, a sweep pass would remove the record exactly when get would
\* return absent for it; at the reading last_accessed + TTL exactly, get
\* still returns the record and the sweep keeps it; and whenever get
\* returns absent for an id, stored or not, the id is not stored afterwards.
C19_SameExpiryPredicate ==
    /\ \A sid \in DOMAIN sessions :
          \A t \in sessions[sid].last_accessed .. MaxTime :
             LET got == SessionManager_get_session(sessions, sid, t)
                 swept == sid \notin
                     DOMAIN SessionManager_cleanup_expired(sessions, t)
             IN  /\ swept <=> IsNone(got.session)
                 /\ t = sessions[sid].last_accessed + SESSION_TTL_MINUTES =>
                        /\ ~IsNone(got.session)
                        /\ ~swept
    /\ \A sid \in Ids :
          LET got == SessionManager_get_session(sessions, sid, now)
          IN  IsNone(got.session) => sid \notin DOMAIN got.sessions

\* a get has just answered absent for an expired id, which is gone, while
\* another record idle for exactly the TTL is still stored
C19_Witness ==
    /\ resp.op = "get"
    /\ resp.status = HTTP_NOT_FOUND
    /\ resp.branch = "expired"
    /\ resp.session_id \notin DOMAIN sessions
    /\ \E sid \in DOMAIN sessions : Idle(sid) = SESSION_TTL_MINUTES

(* ------------------- a running relay and the registry ------------------ *)
\* C20: the only step of a relay that reads or changes the registry is its
\* lookup, taken before the client is accepted and before the backend is
\* dialed; a step that removes the session of a running relay (the deletion
\* endpoint, an expired get or the sweep) changes nothing of the relay, so
\* it neither ends it nor closes a connection; and whether or not the
\* session is still stored, a running forwarding task with a frame waiting
\* can forward it, in both directions.
C20_RelayDetachedFromRegistry ==
    [][/\ (relayVars' # relayVars /\ sessions' # sessions) =>
              /\ pc = "idle"
              /\ ws = "connecting"
              /\ ~dialed
              /\ pp = "none"
       /\ (pc \in {"dialing", "relaying"}
              /\ wsReq.session_id \in (DOMAIN sessions) \ (DOMAIN sessions'))
          => relayVars' = relayVars
       /\ (pc = "relaying" /\ f2p = "run" /\ cRead < Len(clientSent))
          => ENABLED forward_to_personaplex_frame
       /\ (pc = "relaying" /\ f2c = "run" /\ bRead < Len(backendSent))
          => ENABLED forward_to_client_frame
      ]_vars

\* the session was deleted through the endpoint while its relay runs: both
\* connections are open, both tasks run, and frames have gone both ways
C20_Witness ==
    /\ pc = "relaying"
    /\ wsReq.session_id \notin DOMAIN sessions
    /\ resp.op = "delete"
    /\ resp.status = HTTP_OK
    /\ resp.session_id = wsReq.session_id
    /\ ws = "open"
    /\ pp = "open"
    /\ f2p = "run"
    /\ f2c = "run"
    /\ toBackend # <<>>
    /\ toClient # <<>>
====
